---- MODULE Spec2Model ----
(***************************************************************************)
(* Store rating application: the Express handlers of the backend and the    *)
(* Mongoose models they act on, as a state machine over the three           *)
(* collections.  Every await on the database is one atomic step of a        *)
(* request; requests of different callers interleave between the steps.     *)
(* Numbers that can carry one decimal (rating values, averageRating) are    *)
(* held in tenths: 45 is 4.5.  The initial state is the seed script's data:   *)
(* its users, its first store and that store's two ratings; the second       *)
(* store owner has no store yet.  Names and addresses, which no handler      *)
(* branches on beyond validation, are left out of the documents.             *)
(***************************************************************************)
EXTENDS Integers, FiniteSets, Sequences, TLC

\* ------------------------------------------------------------------ bounds
MaxInFlight == 2
MaxRequests == 2
\* The load under which the recomputations of one store's counters are raced.
MaxRaceInFlight == 3
MaxRaceRequests == 4

\* pending: the requests the callers have yet to send.
VARIABLES users, stores, ratings, reqs, resp, pending, nextId

vars == <<users, stores, ratings, reqs, resp, pending, nextId>>

\* One slot per request the server can have in flight; the load decides how
\* many of them are open.
AllSlots == 1..MaxRaceInFlight
Slots == DOMAIN reqs

\* ------------------------------------------------------------- documents
\* The result of a query that finds nothing.
Null == [id |-> 0]

\* Ids the seed creates.
AdminId == 1
OwnerId == 2
AliceId == 3
BobId == 4
CarolId == 5
JaneId == 6
Store1Id == 11
\* A well-formed ObjectId that names no document, and a malformed one.
MissingId == 99
MalformedId == -1

Roles == {"admin", "user", "storeOwner"}

IsMongoId(id) == id > 0

FindById(coll, id) ==
  IF \E d \in coll : d.id = id THEN CHOOSE d \in coll : d.id = id ELSE Null

\* updateOne({_id}, {$set: ...}): the document with this id replaced.
Replace(coll, doc) == {IF d.id = doc.id THEN doc ELSE d : d \in coll}

\* --------------------------------------------------------- JSON body values
Undefined == [type |-> "undefined", val |-> 0]
Num(tenths) == [type |-> "number", val |-> tenths]
\* a string that reads as the number tenths/10
Str(tenths) == [type |-> "string", val |-> tenths]

Truthy(v) ==
  \/ v.type = "number" /\ v.val # 0
  \/ v.type = "string"

NumberIsIntegerAny(v) == v.type = "number"
NumberIsInteger(v) == v.type = "number" /\ v.val % 10 = 0

\* express-validator isInt({ min: 1, max: 5 }): the value as a string is an
\* integer literal in range.
IsIntInRange(v) == v.type # "undefined" /\ v.val % 10 = 0 /\ v.val >= 10 /\ v.val <= 50

\* Mongoose's cast of a Number path.
CastNumber(v) == IF v.type = "string" THEN Num(v.val) ELSE v

\* ratingSchema.rating: required, min 1, max 5, Number.isInteger.
RatingPathValid(v) ==
  /\ v.type = "number"
  /\ v.val >= 10
  /\ v.val <= 50
  /\ NumberIsInteger(v)

\* ------------------------------------------------------------- middleware
NoToken == 0

AuthenticateTokenIgnoringActive(token) ==
  IF token = NoToken THEN [status |-> 401, error |-> "NO_TOKEN", user |-> Null]
  ELSE LET user == FindById(users, token) IN
       IF user = Null
       THEN [status |-> 401, error |-> "USER_NOT_FOUND", user |-> Null]
       ELSE [status |-> 0, error |-> "", user |-> user]

\* authenticateToken: the token names a user; the user is read from the
\* database and must exist and be active.
AuthenticateToken(token) ==
  IF token = NoToken THEN [status |-> 401, error |-> "NO_TOKEN", user |-> Null]
  ELSE LET user == FindById(users, token) IN
       IF user = Null \/ ~user.isActive
       THEN [status |-> 401, error |-> "USER_NOT_FOUND", user |-> Null]
       ELSE [status |-> 0, error |-> "", user |-> user]

AuthorizeAnyRole(roles, a) == a

\* authorize(...roles) after authenticateToken.
Authorize(roles, a) ==
  IF a.status # 0 THEN a
  ELSE IF a.user.role \notin roles
  THEN [status |-> 403, error |-> "INSUFFICIENT_PERMISSIONS", user |-> a.user]
  ELSE a

\* ----------------------------------------------------------------- requests
Idle == [pc |-> "idle"]
NoResp == [status |-> 0]

InFlight == {s \in Slots : reqs[s] # Idle}

\* A new request takes the lowest free slot.
FreeSlot(r) ==
  /\ r \in Slots
  /\ reqs[r] = Idle
  /\ \A s \in Slots : s < r => reqs[s] # Idle
  /\ pending > 0

\* The body is attached when the handler (or its validator) reads it.
NewReq(kind, token, target) ==
  [kind |-> kind, pc |-> "start", token |-> token, target |-> target,
   user |-> Null, body |-> Null, doc |-> Null, upd |-> Null,
   created |-> FALSE, alone |-> (InFlight = {}), wrote |-> FALSE]

\* What the caller and the claims see of an answered request.
Answer(req, status, error) ==
  [status |-> status, error |-> error, kind |-> req.kind, pc |-> req.pc,
   token |-> req.token,
   user |-> req.user, target |-> req.target, body |-> req.body, doc |-> req.doc,
   created |-> req.created, alone |-> req.alone, wrote |-> req.wrote]

\* The request is answered in its first step (by a middleware, or by a handler
\* that awaits a single query): nothing is kept of it.
Reply(req, status, error) ==
  /\ resp' = Answer(req, status, error)
  /\ pending' = pending - 1
  /\ UNCHANGED <<users, stores, ratings, reqs, nextId>>

\* The request passed its middleware and waits on its first query.
Admit(r, req) ==
  /\ reqs' = [s \in Slots |->
                IF s = r THEN req
                ELSE IF reqs[s] = Idle THEN Idle
                ELSE [reqs[s] EXCEPT !.alone = FALSE]]
  /\ resp' = NoResp
  /\ pending' = pending - 1
  /\ UNCHANGED <<users, stores, ratings, nextId>>

\* A later step answers the request.
Respond(r, req, status, error) ==
  /\ reqs' = [reqs EXCEPT ![r] = Idle]
  /\ resp' = Answer(req, status, error)
  /\ UNCHANGED pending

\* A later step moves the request on.
Continue(r, req) ==
  /\ reqs' = [reqs EXCEPT ![r] = req]
  /\ resp' = NoResp
  /\ UNCHANGED pending

At(r, kinds, pc) ==
  r \in Slots /\ reqs[r] # Idle /\ reqs[r].kind \in kinds /\ reqs[r].pc = pc

\* Tokens a caller can present: none, a forged one, or one issued to a user.
ForgedToken == -2
Tokens == {NoToken, ForgedToken} \cup {u.id : u \in users}

\* authenticateToken as the first middleware of a route, then authorize.
Gate(token, roles) ==
  IF token = ForgedToken
  THEN [status |-> 401, error |-> "INVALID_TOKEN", user |-> Null]
  ELSE Authorize(roles, AuthenticateToken(token))

\* ------------------------------------------------------------------ ratings
Comments == {"", "c"}
RatingInputs == {Undefined, Num(0), Num(25), Num(50), Num(60), Str(10)}
StoreIdInputs == {s.id : s \in stores} \cup {MissingId, MalformedId}
RatingIdInputs == {d.id : d \in ratings} \cup {MissingId, MalformedId}

\* validateRating: rating isInt 1..5, storeId isMongoId (comment is bounded).
ValidateRating(body) == IsIntInRange(body.rating) /\ IsMongoId(body.storeId)

\* PUT handler: if (rating && (rating < 1 || rating > 5 || !Number.isInteger(rating)))
PutRatingInvalid(v) ==
  Truthy(v) /\ (v.val < 10 \/ v.val > 50 \/ ~NumberIsInteger(v))

RatingIndexAllowsAll(doc) == TRUE

\* ratingSchema.index({ userId: 1, storeId: 1 }, { unique: true })
RatingIndexAllows(doc) ==
  ~\E d \in ratings :
      d.id # doc.id /\ d.userId = doc.userId /\ d.storeId = doc.storeId

RECURSIVE SumRatings(_)
SumRatings(S) ==
  IF S = {} THEN 0
  ELSE LET d == CHOOSE x \in S : TRUE IN d.rating + SumRatings(S \ {d})

\* { $match: { storeId: this._id } }
RatingsOf(storeId) == {d \in ratings : d.storeId = storeId}

MathFloorTenths(sum, count) == sum \div count

\* Math.round(avg * 10) / 10, avg = sum / count, everything in tenths.
MathRoundTenths(sum, count) == (2 * sum + count) \div (2 * count)

\* storeSchema.methods.updateRating, up to its save.
UpdateRating(store) ==
  LET S == RatingsOf(store.id) IN
  IF S # {}
  THEN [store EXCEPT !.averageRating = MathRoundTenths(SumRatings(S), Cardinality(S)),
                     !.totalRatings = Cardinality(S)]
  ELSE [store EXCEPT !.averageRating = 0, !.totalRatings = 0]

\* Document.save() of a loaded document sends the paths whose value changed
\* since it was loaded; the others keep what the collection holds now.
Merge(cur, loaded, upd) ==
  [f \in DOMAIN cur |-> IF upd[f] # loaded[f] THEN upd[f] ELSE cur[f]]

\* Post middleware registered on the Rating schema (document middleware).
RatingPostHooks == {"save", "deleteOne"}
PostHookRuns(op) == op \in RatingPostHooks

\* What the rating path of a document holds: a JSON number in tenths.
DocRating(v) == CastNumber(v).val

\* POST /api/ratings: authenticateToken, authorize('user'), validateRating.
StartPostRating(r) ==
  /\ FreeSlot(r)
  /\ \E token \in Tokens :
       LET a == Gate(token, {"user"})
           req == [NewReq("postRating", token, Null.id) EXCEPT !.user = a.user] IN
       IF a.status # 0 THEN Reply(req, a.status, a.error)
       ELSE \E storeId \in StoreIdInputs, rating \in RatingInputs, comment \in Comments :
              LET body == [storeId |-> storeId, rating |-> rating, comment |-> comment]
                  rq == [req EXCEPT !.target = storeId, !.body = body] IN
              IF ~ValidateRating(body) THEN Reply(rq, 400, "VALIDATION_FAILED")
              ELSE Admit(r, [rq EXCEPT !.pc = "findStore"])

StoreMissingIfNull(store) == store = Null

\* if (!store || !store.isActive)
StoreMissing(store) == store = Null \/ ~store.isActive

\* const store = await Store.findById(storeId)
PostFindStore(r) ==
  /\ At(r, {"postRating"}, "findStore")
  /\ LET req == reqs[r]
         store == FindById(stores, req.body.storeId) IN
     IF StoreMissing(store)
     THEN Respond(r, req, 404, "STORE_NOT_FOUND")
     ELSE Continue(r, [req EXCEPT !.pc = "findRating"])
  /\ UNCHANGED <<users, stores, ratings, nextId>>

\* let existingRating = await Rating.findOne({ userId, storeId })
PostFindRating(r) ==
  /\ At(r, {"postRating"}, "findRating")
  /\ LET req == reqs[r]
         found == {d \in ratings :
                     d.userId = req.user.id /\ d.storeId = req.body.storeId} IN
     IF found # {}
     THEN \E existing \in found :
            Continue(r, [req EXCEPT !.pc = "save", !.doc = existing,
                           !.upd = [existing EXCEPT
                                      !.rating = DocRating(req.body.rating),
                                      !.comment = req.body.comment]])
     ELSE Continue(r, [req EXCEPT !.pc = "insert", !.created = TRUE,
                         !.upd = [id |-> Null.id, userId |-> req.user.id,
                                  storeId |-> req.body.storeId,
                                  rating |-> DocRating(req.body.rating),
                                  comment |-> req.body.comment]])
  /\ UNCHANGED <<users, stores, ratings, nextId>>

\* await newRating.save(): validation, then the insert under the unique index.
RatingInsert(r) ==
  /\ At(r, {"postRating"}, "insert")
  /\ LET req == reqs[r]
         doc == [req.upd EXCEPT !.id = nextId] IN
     IF ~RatingPathValid(Num(doc.rating))
     THEN /\ Respond(r, req, 400, "ValidationError")
          /\ UNCHANGED <<ratings, nextId>>
     ELSE IF ~RatingIndexAllows(doc)
     THEN /\ Respond(r, req, 500, "SERVER_ERROR")
          /\ UNCHANGED <<ratings, nextId>>
     ELSE /\ ratings' = ratings \cup {doc}
          /\ nextId' = nextId + 1
          /\ Continue(r, [req EXCEPT !.pc = "hookFindStore", !.doc = doc,
                            !.upd = Null, !.wrote = TRUE])
  /\ UNCHANGED <<users, stores>>


\* await existingRating.save(): validation, then the update of the changed paths.
RatingSave(r) ==
  /\ At(r, {"postRating", "putRating"}, "save")
  /\ LET req == reqs[r]
         cur == FindById(ratings, req.doc.id) IN
     IF ~RatingPathValid(Num(req.upd.rating))
     THEN /\ Respond(r, req, 400, "ValidationError")
          /\ UNCHANGED ratings
     ELSE IF cur = Null
     THEN /\ Respond(r, req, 500, "SERVER_ERROR")
          /\ UNCHANGED ratings
     ELSE LET doc == Merge(cur, req.doc, req.upd) IN
          /\ ratings' = Replace(ratings, doc)
          /\ Continue(r, [req EXCEPT !.pc = "hookFindStore", !.doc = req.upd,
                            !.upd = Null, !.wrote = (req.wrote \/ doc # cur)])
  /\ UNCHANGED <<users, stores, nextId>>

\* ratingSchema.post('save'): const store = await Store.findById(doc.storeId)
HookFindStore(r) ==
  /\ At(r, {"postRating", "putRating", "deleteRating"}, "hookFindStore")
  /\ LET req == reqs[r]
         store == FindById(stores, req.doc.storeId) IN
     Continue(r, [req EXCEPT !.pc = IF store = Null THEN "respond" ELSE "aggregate",
                             !.upd = store])
  /\ UNCHANGED <<users, stores, ratings, nextId>>

\* store.updateRating(): const stats = await Rating.aggregate([...])
HookAggregate(r) ==
  /\ At(r, {"postRating", "putRating", "deleteRating"}, "aggregate")
  /\ LET req == reqs[r] IN
     Continue(r, [req EXCEPT !.pc = "storeSave",
                             !.upd = [loaded |-> req.upd, new |-> UpdateRating(req.upd)]])
  /\ UNCHANGED <<users, stores, ratings, nextId>>

RatingDoneCreated(req) == 201

\* The status of a rating request that ran to its end.
RatingDone(req) == IF req.created THEN 201 ELSE 200

\* store.updateRating(): await this.save(), and the handler's response.
HookStoreSave(r) ==
  /\ At(r, {"postRating", "putRating", "deleteRating"}, "storeSave")
  /\ LET req == reqs[r]
         cur == FindById(stores, req.upd.loaded.id)
         doc == Merge(cur, req.upd.loaded, req.upd.new) IN
     /\ stores' = Replace(stores, doc)
     /\ Respond(r, [req EXCEPT !.wrote = (req.wrote \/ doc # cur)], RatingDone(req), "")
  /\ UNCHANGED <<users, ratings, nextId>>

\* PUT /api/ratings/:ratingId: authenticateToken, authorize('user'),
\* validateObjectId, then the handler's own check of the rating value.
PutRatingFrom(r, tokens, ratingIds, values, comments) ==
  /\ FreeSlot(r)
  /\ \E token \in tokens :
       LET a == Gate(token, {"user"})
           req == [NewReq("putRating", token, Null.id) EXCEPT !.user = a.user] IN
       IF a.status # 0 THEN Reply(req, a.status, a.error)
       ELSE \E ratingId \in ratingIds, rating \in values, comment \in comments :
              LET body == [rating |-> rating, comment |-> comment]
                  rq == [req EXCEPT !.target = ratingId, !.body = body] IN
              IF ~IsMongoId(ratingId) THEN Reply(rq, 400, "VALIDATION_FAILED")
              ELSE IF PutRatingInvalid(rating) THEN Reply(rq, 400, "INVALID_RATING")
              ELSE Admit(r, [rq EXCEPT !.pc = "findRating"])

StartPutRating(r) == PutRatingFrom(r, Tokens, RatingIdInputs, RatingInputs, Comments)

\* const existingRating = await Rating.findById(ratingId), the ownership check
\* and the assignments before the save.
PutFindRating(r) ==
  /\ At(r, {"putRating"}, "findRating")
  /\ LET req == reqs[r]
         existing == FindById(ratings, req.target) IN
     IF existing = Null THEN Respond(r, req, 404, "RATING_NOT_FOUND")
     ELSE IF existing.userId # req.user.id
     THEN Respond(r, [req EXCEPT !.doc = existing], 403, "ACCESS_DENIED")
     ELSE Continue(r, [req EXCEPT !.pc = "save", !.doc = existing,
                         !.upd = [existing EXCEPT
                                    !.rating = IF Truthy(req.body.rating)
                                               THEN DocRating(req.body.rating) ELSE @,
                                    !.comment = req.body.comment]])
  /\ UNCHANGED <<users, stores, ratings, nextId>>

\* DELETE /api/ratings/:ratingId: authenticateToken, validateObjectId.
DeleteRatingFrom(r, tokens, ratingIds) ==
  /\ FreeSlot(r)
  /\ \E token \in tokens :
       LET a == Gate(token, Roles)
           req == [NewReq("deleteRating", token, Null.id) EXCEPT !.user = a.user] IN
       IF a.status # 0 THEN Reply(req, a.status, a.error)
       ELSE \E ratingId \in ratingIds :
              LET rq == [req EXCEPT !.target = ratingId] IN
              IF ~IsMongoId(ratingId) THEN Reply(rq, 400, "VALIDATION_FAILED")
              ELSE Admit(r, [rq EXCEPT !.pc = "findRating"])

StartDeleteRating(r) == DeleteRatingFrom(r, Tokens, RatingIdInputs)

\* const canDelete = admin, or a 'user' whose rating it is
CanDelete(user, rating) ==
  user.role = "admin" \/ (user.role = "user" /\ rating.userId = user.id)

\* const rating = await Rating.findById(ratingId) and the permission check.
DeleteFindRating(r) ==
  /\ At(r, {"deleteRating"}, "findRating")
  /\ LET req == reqs[r]
         rating == FindById(ratings, req.target) IN
     IF rating = Null THEN Respond(r, req, 404, "RATING_NOT_FOUND")
     ELSE IF ~CanDelete(req.user, rating)
     THEN Respond(r, [req EXCEPT !.doc = rating], 403, "ACCESS_DENIED")
     ELSE Continue(r, [req EXCEPT !.pc = "delete", !.doc = rating])
  /\ UNCHANGED <<users, stores, ratings, nextId>>

\* await Rating.findByIdAndDelete(ratingId): a query, which runs the post
\* middleware registered for it (none is), then the response.
DeleteRating(r) ==
  /\ At(r, {"deleteRating"}, "delete")
  /\ LET req == reqs[r]
         cur == FindById(ratings, req.target)
         rq == [req EXCEPT !.wrote = (cur # Null)] IN
     /\ ratings' = ratings \ {cur}
     /\ IF PostHookRuns("findOneAndDelete") /\ cur # Null
        THEN Continue(r, [rq EXCEPT !.pc = "hookFindStore"])
        ELSE Respond(r, rq, 200, "")
  /\ UNCHANGED <<users, stores, nextId>>

\* ----------------------------------------------------------------- accounts
\* bcrypt.hash in the pre-save hook, bcrypt.compare in comparePassword.
\* A password path holds a text and the number of times bcrypt was applied to
\* it: 0 is the plain text, 1 its hash, 2 the hash of its hash.
Plain(text) == [rounds |-> 0, text |-> text]
Hash(password) == [rounds |-> password.rounds + 1, text |-> password.text]
IsHashed(stored) == stored.rounds > 0

ComparePasswordAny(candidate, stored) == TRUE

\* bcrypt.compare(candidatePassword, this.password)
ComparePassword(candidate, stored) == stored = Hash(Plain(candidate))

\* The users and ratings the seed script creates.
SeedUser(id, email, password, role, storeId) ==
  [id |-> id, email |-> email, password |-> Hash(Plain(password)), role |-> role,
   storeId |-> storeId, isActive |-> TRUE]

SeedUsers ==
  {SeedUser(AdminId, "admin@example.com", "Admin123!", "admin", Null.id),
   SeedUser(OwnerId, "owner@example.com", "Owner123!", "storeOwner", Store1Id),
   SeedUser(AliceId, "user@example.com", "User123!", "user", Null.id),
   SeedUser(BobId, "bob.user@example.com", "User123!", "user", Null.id),
   SeedUser(CarolId, "carol.user@example.com", "User123!", "user", Null.id),
   SeedUser(JaneId, "jane.owner@example.com", "Owner123!", "storeOwner", Null.id)}

SeedRatings ==
  {[id |-> 21, userId |-> AliceId, storeId |-> Store1Id, rating |-> 50, comment |-> "c"],
   [id |-> 22, userId |-> BobId, storeId |-> Store1Id, rating |-> 40, comment |-> "c"]}

\* Emails a request can carry.  normalizeEmail() and the schemas' lowercase
\* setter fold case.
EmailInputs == {"new@example.com", "New@Example.com", "user@example.com", "not-an-email"}
Lower(email) == IF email = "New@Example.com" THEN "new@example.com" ELSE email
IsEmail(email) == email # "not-an-email" /\ email # ""

\* Passwords a request can carry; the last one fails the length and
\* complexity rule.
PasswordInputs == {"Fresh123!", "weak"}
PasswordPolicy(password) == password # "weak" /\ password # ""

PasswordPathValidPlainOnly(password) ==
  ~IsHashed(password) /\ PasswordPolicy(password.text)

\* userSchema.password validator: a stored hash passes, a plain password must
\* satisfy the rule.
PasswordPathValid(password) ==
  IF IsHashed(password) THEN TRUE ELSE PasswordPolicy(password.text)

\* userSchema: email match, password validator, role enum.
UserValid(doc) ==
  /\ IsEmail(doc.email)
  /\ PasswordPathValid(doc.password)
  /\ doc.role \in Roles

UserEmailIndexAllowsAll(doc) == TRUE

\* userSchema.email: unique
UserEmailIndexAllows(doc) ==
  ~\E d \in users : d.id # doc.id /\ d.email = doc.email

\* storeSchema.email: unique
StoreEmailIndexAllows(doc) ==
  ~\E d \in stores : d.id # doc.id /\ d.email = doc.email

PreSaveUserAlways(loaded, doc) == [doc EXCEPT !.password = Hash(doc.password)]

\* userSchema.pre('save'): hash the password when it was modified.
PreSaveUser(loaded, doc) ==
  IF loaded = Null \/ doc.password # loaded.password
  THEN [doc EXCEPT !.password = Hash(doc.password)]
  ELSE doc

\* User.findOne({ email }): the filter is cast by the schema (lowercase).
FindByEmail(coll, email) ==
  IF \E d \in coll : d.email = Lower(email)
  THEN CHOOSE d \in coll : d.email = Lower(email) ELSE Null

RegisterRoleFromBody(bodyRole) == IF bodyRole = "" THEN "user" ELSE bodyRole

\* The role a registration stores: new User({ ..., role: 'user' }).
RegisterRole(bodyRole) == "user"

\* validateUserRegistration / validateAdminUserCreation, on the normalized body.
ValidateUserBody(body, roleRequired) ==
  /\ IsEmail(body.email)
  /\ PasswordPolicy(body.password)
  /\ IF body.role = "" THEN ~roleRequired ELSE body.role \in Roles

\* POST /api/auth/register: validateUserRegistration, then
\* const existingUser = await User.findOne({ email }).
StartRegister(r) ==
  /\ FreeSlot(r)
  /\ \E email \in EmailInputs, password \in PasswordInputs, role \in {"", "admin", "storeOwner"} :
       LET body == [email |-> Lower(email), password |-> password, role |-> role]
           req == [NewReq("register", NoToken, Null.id) EXCEPT !.body = body] IN
       IF ~ValidateUserBody(body, FALSE) THEN Reply(req, 400, "VALIDATION_FAILED")
       ELSE IF FindByEmail(users, body.email) # Null THEN Reply(req, 400, "USER_EXISTS")
       ELSE Admit(r, [req EXCEPT !.pc = "save", !.created = TRUE,
                        !.upd = [id |-> Null.id, email |-> body.email,
                                 password |-> Plain(body.password),
                                 role |-> RegisterRole(body.role),
                                 storeId |-> Null.id, isActive |-> TRUE]])

\* await user.save() of a new user: validation, the hash, the insert under
\* the unique index; then the response (with a token on registration).
UserInsert(r) ==
  /\ At(r, {"register", "createUser"}, "save")
  /\ LET req == reqs[r]
         doc == PreSaveUser(Null, [req.upd EXCEPT !.id = nextId]) IN
     IF ~UserValid(req.upd)
     THEN /\ Respond(r, req, 400, "ValidationError")
          /\ UNCHANGED <<users, nextId>>
     ELSE IF ~UserEmailIndexAllows(doc)
     THEN /\ Respond(r, req, 400, "DUPLICATE_EMAIL")
          /\ UNCHANGED <<users, nextId>>
     ELSE /\ users' = users \cup {doc}
          /\ nextId' = nextId + 1
          /\ Respond(r, [req EXCEPT !.doc = doc, !.upd = Null, !.wrote = TRUE], 201, "")
  /\ UNCHANGED <<stores, ratings>>

\* POST /api/auth/login: one query, then comparePassword.
Login(r) ==
  /\ FreeSlot(r)
  /\ \E email \in {u.email : u \in users} \cup EmailInputs,
        password \in PasswordInputs \cup {"User123!"} :
       LET body == [email |-> Lower(email), password |-> password, role |-> ""]
           user == FindByEmail(users, body.email)
           req == [NewReq("login", NoToken, Null.id) EXCEPT !.body = body] IN
       IF ~IsEmail(body.email) THEN Reply(req, 400, "VALIDATION_FAILED")
       ELSE IF user = Null \/ ~user.isActive
       THEN Reply([req EXCEPT !.doc = user], 401, "INVALID_CREDENTIALS")
       ELSE IF ~ComparePassword(password, user.password)
       THEN Reply([req EXCEPT !.doc = user], 401, "INVALID_CREDENTIALS")
       ELSE Reply([req EXCEPT !.doc = user], 200, "")

\* GET /api/auth/verify: authenticateToken, then the answer.
Verify(r) ==
  /\ FreeSlot(r)
  /\ \E token \in Tokens :
       LET a == Gate(token, Roles)
           req == [NewReq("verify", token, Null.id) EXCEPT !.user = a.user] IN
       IF a.status # 0 THEN Reply(req, a.status, a.error)
       ELSE Reply(req, 200, "")

\* Users an admin request names.
UserIdInputs ==
  {AdminId, OwnerId, AliceId, MissingId, MalformedId}
    \cup {u.id : u \in users \ SeedUsers}

\* POST /api/users: authenticateToken, authorize('admin'),
\* validateAdminUserCreation.
StartCreateUser(r) ==
  /\ FreeSlot(r)
  /\ \E token \in Tokens :
       LET a == Gate(token, {"admin"})
           req == [NewReq("createUser", token, Null.id) EXCEPT !.user = a.user] IN
       IF a.status # 0 THEN Reply(req, a.status, a.error)
       ELSE \E email \in EmailInputs, password \in PasswordInputs, role \in Roles \cup {""} :
              LET body == [email |-> Lower(email), password |-> password, role |-> role]
                  rq == [req EXCEPT !.body = body] IN
              IF ~ValidateUserBody(body, TRUE) THEN Reply(rq, 400, "VALIDATION_FAILED")
              ELSE Admit(r, [rq EXCEPT !.pc = "findEmail"])

\* const existingUser = await User.findOne({ email })
CreateUserFindEmail(r) ==
  /\ At(r, {"createUser"}, "findEmail")
  /\ LET req == reqs[r] IN
     IF FindByEmail(users, req.body.email) # Null
     THEN Respond(r, req, 400, "USER_EXISTS")
     ELSE Continue(r, [req EXCEPT !.pc = "save", !.created = TRUE,
                         !.upd = [id |-> Null.id, email |-> req.body.email,
                                  password |-> Plain(req.body.password),
                                  role |-> req.body.role,
                                  storeId |-> Null.id, isActive |-> TRUE]])
  /\ UNCHANGED <<users, stores, ratings, nextId>>

\* Bodies of PUT /api/users/:userId: one field each ("" is an absent field).
PutUserBodies ==
  {[email |-> e, role |-> "", isActive |-> ""] : e \in EmailInputs}
    \cup {[email |-> "", role |-> ro, isActive |-> ""] : ro \in Roles}
    \cup {[email |-> "", role |-> "", isActive |-> b] : b \in {"true", "false"}}

\* PUT and DELETE /api/users/:userId: authenticateToken, authorize('admin'),
\* validateObjectId.
StartUserById(r) ==
  /\ FreeSlot(r)
  /\ \E token \in Tokens, kind \in {"putUser", "deleteUser"} :
       LET a == Gate(token, {"admin"})
           req == [NewReq(kind, token, Null.id) EXCEPT !.user = a.user] IN
       IF a.status # 0 THEN Reply(req, a.status, a.error)
       ELSE \E userId \in UserIdInputs,
               body \in IF kind = "putUser" THEN PutUserBodies ELSE {Null} :
              LET rq == [req EXCEPT !.target = userId, !.body = body] IN
              IF ~IsMongoId(userId) THEN Reply(rq, 400, "VALIDATION_FAILED")
              ELSE Admit(r, [rq EXCEPT !.pc = "findUser"])

\* The handler's assignments to the loaded user.
AssignUser(user, body) ==
  [user EXCEPT !.email = IF body.email # "" THEN Lower(body.email) ELSE @,
               !.role = IF body.role # "" THEN body.role ELSE @,
               !.isActive = IF body.isActive = "true" THEN TRUE
                            ELSE IF body.isActive = "false" THEN FALSE ELSE @]

\* const user = await User.findById(userId)
UserByIdFind(r) ==
  /\ At(r, {"putUser", "deleteUser"}, "findUser")
  /\ LET req == reqs[r]
         user == FindById(users, req.target) IN
     IF user = Null THEN Respond(r, req, 404, "USER_NOT_FOUND")
     ELSE IF req.kind = "deleteUser"
     THEN Continue(r, [req EXCEPT !.pc = "save", !.doc = user,
                         !.upd = [user EXCEPT !.isActive = FALSE]])
     ELSE IF req.body.email # "" /\ req.body.email # user.email
     THEN Continue(r, [req EXCEPT !.pc = "findEmail", !.doc = user])
     ELSE Continue(r, [req EXCEPT !.pc = "save", !.doc = user,
                         !.upd = AssignUser(user, req.body)])
  /\ UNCHANGED <<users, stores, ratings, nextId>>

\* const existingUser = await User.findOne({ email, _id: { $ne: user._id } })
PutUserFindEmail(r) ==
  /\ At(r, {"putUser"}, "findEmail")
  /\ LET req == reqs[r] IN
     IF \E d \in users : d.email = Lower(req.body.email) /\ d.id # req.doc.id
     THEN Respond(r, req, 400, "EMAIL_EXISTS")
     ELSE Continue(r, [req EXCEPT !.pc = "save", !.upd = AssignUser(req.doc, req.body)])
  /\ UNCHANGED <<users, stores, ratings, nextId>>

\* PATCH /api/auth/password: authenticateToken, validatePasswordUpdate
\* ("" is an absent currentPassword).
StartPatchPassword(r) ==
  /\ FreeSlot(r)
  /\ \E token \in Tokens :
       LET a == Gate(token, Roles)
           req == [NewReq("patchPassword", token, Null.id) EXCEPT !.user = a.user] IN
       IF a.status # 0 THEN Reply(req, a.status, a.error)
       ELSE \E currentPassword \in {"", "User123!", "Fresh123!"},
               newPassword \in PasswordInputs \cup {"User123!"} :
              LET body == [currentPassword |-> currentPassword,
                           newPassword |-> newPassword]
                  rq == [req EXCEPT !.target = a.user.id, !.body = body] IN
              IF currentPassword = "" \/ ~PasswordPolicy(newPassword)
              THEN Reply(rq, 400, "VALIDATION_FAILED")
              ELSE Admit(r, [rq EXCEPT !.pc = "findUser"])

\* const user = await User.findById(req.user._id), comparePassword, and
\* user.password = newPassword.
PatchPasswordFind(r) ==
  /\ At(r, {"patchPassword"}, "findUser")
  /\ LET req == reqs[r]
         user == FindById(users, req.user.id)
         rq == [req EXCEPT !.doc = user] IN
     IF user = Null THEN Respond(r, rq, 404, "USER_NOT_FOUND")
     ELSE IF ~ComparePassword(req.body.currentPassword, user.password)
     THEN Respond(r, rq, 400, "INVALID_CURRENT_PASSWORD")
     ELSE Continue(r, [rq EXCEPT !.pc = "save",
                         !.upd = [user EXCEPT
                                    !.password = Plain(req.body.newPassword)]])
  /\ UNCHANGED <<users, stores, ratings, nextId>>

\* await user.save() of a loaded user: validation, the hash when the password
\* changed, the update of the changed paths under the unique index.
UserSave(r) ==
  /\ At(r, {"putUser", "deleteUser", "patchPassword"}, "save")
  /\ LET req == reqs[r]
         cur == FindById(users, req.doc.id)
         doc == Merge(cur, req.doc, PreSaveUser(req.doc, req.upd)) IN
     IF ~UserValid(req.upd)
     THEN /\ Respond(r, req, 400, "ValidationError")
          /\ UNCHANGED users
     ELSE IF ~UserEmailIndexAllows(doc)
     THEN /\ Respond(r, req, 500, "SERVER_ERROR")
          /\ UNCHANGED users
     ELSE /\ users' = Replace(users, doc)
          /\ Respond(r, [req EXCEPT !.wrote = (doc # cur)], 200, "")
  /\ UNCHANGED <<stores, ratings, nextId>>

\* ------------------------------------------------------------------- stores
StoreEmailInputs ==
  {"new@example.com", "New@Example.com", "shop@example.com",
   "contact@techelectronics.com", "not-an-email"}
OwnerIdInputs == {JaneId, OwnerId, AliceId, MissingId, MalformedId}
StoreIdTargets == {s.id : s \in stores} \cup {MissingId, MalformedId}

\* POST /api/stores: authenticateToken, authorize('admin'), validateStore.
StartCreateStore(r) ==
  /\ FreeSlot(r)
  /\ \E token \in Tokens :
       LET a == Gate(token, {"admin"})
           req == [NewReq("createStore", token, Null.id) EXCEPT !.user = a.user] IN
       IF a.status # 0 THEN Reply(req, a.status, a.error)
       ELSE \E email \in StoreEmailInputs, ownerId \in OwnerIdInputs :
              LET body == [email |-> Lower(email), ownerId |-> ownerId]
                  rq == [req EXCEPT !.body = body] IN
              IF ~IsEmail(body.email) \/ ~IsMongoId(ownerId)
              THEN Reply(rq, 400, "VALIDATION_FAILED")
              ELSE Admit(r, [rq EXCEPT !.pc = "findEmail"])

\* const existingStore = await Store.findOne({ email })
CreateStoreFindEmail(r) ==
  /\ At(r, {"createStore"}, "findEmail")
  /\ LET req == reqs[r] IN
     IF FindByEmail(stores, req.body.email) # Null
     THEN Respond(r, req, 400, "STORE_EXISTS")
     ELSE Continue(r, [req EXCEPT !.pc = "findOwner"])
  /\ UNCHANGED <<users, stores, ratings, nextId>>

\* const owner = await User.findById(ownerId)
CreateStoreFindOwner(r) ==
  /\ At(r, {"createStore"}, "findOwner")
  /\ LET req == reqs[r]
         owner == FindById(users, req.body.ownerId) IN
     IF owner = Null \/ owner.role # "storeOwner"
     THEN Respond(r, req, 400, "INVALID_OWNER")
     ELSE Continue(r, [req EXCEPT !.pc = "findOwnerStore", !.doc = owner])
  /\ UNCHANGED <<users, stores, ratings, nextId>>

\* const existingOwnerStore = await Store.findOne({ ownerId })
CreateStoreFindOwnerStore(r) ==
  /\ At(r, {"createStore"}, "findOwnerStore")
  /\ LET req == reqs[r] IN
     IF \E d \in stores : d.ownerId = req.body.ownerId
     THEN Respond(r, req, 400, "OWNER_HAS_STORE")
     ELSE Continue(r, [req EXCEPT !.pc = "saveStore", !.created = TRUE])
  /\ UNCHANGED <<users, stores, ratings, nextId>>

\* await store.save() of the new store.
CreateStoreSave(r) ==
  /\ At(r, {"createStore"}, "saveStore")
  /\ LET req == reqs[r]
         doc == [id |-> nextId, email |-> req.body.email, ownerId |-> req.body.ownerId,
                 averageRating |-> 0, totalRatings |-> 0, isActive |-> TRUE] IN
     IF ~StoreEmailIndexAllows(doc)
     THEN /\ Respond(r, req, 400, "DUPLICATE_EMAIL")
          /\ UNCHANGED <<stores, nextId>>
     ELSE /\ stores' = stores \cup {doc}
          /\ nextId' = nextId + 1
          /\ Continue(r, [req EXCEPT !.pc = "saveOwner", !.target = doc.id,
                            !.wrote = TRUE])
  /\ UNCHANGED <<users, ratings>>

\* owner.storeId = store._id; await owner.save(); the response.
CreateStoreSaveOwner(r) ==
  /\ At(r, {"createStore"}, "saveOwner")
  /\ LET req == reqs[r]
         upd == [req.doc EXCEPT !.storeId = req.target]
         cur == FindById(users, req.doc.id)
         doc == Merge(cur, req.doc, PreSaveUser(req.doc, upd)) IN
     IF ~UserValid(upd)
     THEN /\ Respond(r, req, 400, "ValidationError")
          /\ UNCHANGED users
     ELSE /\ users' = Replace(users, doc)
          /\ Respond(r, req, 201, "")
  /\ UNCHANGED <<stores, ratings, nextId>>

\* PUT and DELETE /api/stores/:storeId: authenticateToken, authorize('admin'),
\* validateObjectId.
StartStoreById(r) ==
  /\ FreeSlot(r)
  /\ \E token \in Tokens, kind \in {"putStore", "deleteStore"} :
       LET a == Gate(token, {"admin"})
           req == [NewReq(kind, token, Null.id) EXCEPT !.user = a.user] IN
       IF a.status # 0 THEN Reply(req, a.status, a.error)
       ELSE \E storeId \in StoreIdTargets,
               body \in IF kind = "putStore"
                        THEN {[email |-> e] : e \in StoreEmailInputs} ELSE {Null} :
              LET rq == [req EXCEPT !.target = storeId, !.body = body] IN
              IF ~IsMongoId(storeId) THEN Reply(rq, 400, "VALIDATION_FAILED")
              ELSE Admit(r, [rq EXCEPT !.pc = "findStore"])

\* const store = await Store.findById(storeId)
StoreByIdFind(r) ==
  /\ At(r, {"putStore", "deleteStore"}, "findStore")
  /\ LET req == reqs[r]
         store == FindById(stores, req.target) IN
     IF store = Null THEN Respond(r, req, 404, "STORE_NOT_FOUND")
     ELSE IF req.kind = "deleteStore"
     THEN Continue(r, [req EXCEPT !.pc = "save", !.doc = store,
                         !.upd = [store EXCEPT !.isActive = FALSE]])
     ELSE IF req.body.email # store.email
     THEN Continue(r, [req EXCEPT !.pc = "findEmail", !.doc = store])
     ELSE Continue(r, [req EXCEPT !.pc = "save", !.doc = store, !.upd = store])
  /\ UNCHANGED <<users, stores, ratings, nextId>>

\* const existingStore = await Store.findOne({ email, _id: { $ne: store._id } })
PutStoreFindEmail(r) ==
  /\ At(r, {"putStore"}, "findEmail")
  /\ LET req == reqs[r] IN
     IF \E d \in stores : d.email = Lower(req.body.email) /\ d.id # req.doc.id
     THEN Respond(r, req, 400, "EMAIL_EXISTS")
     ELSE Continue(r, [req EXCEPT !.pc = "save",
                         !.upd = [req.doc EXCEPT !.email = Lower(req.body.email)]])
  /\ UNCHANGED <<users, stores, ratings, nextId>>

\* await store.save() of a loaded store; a PUT is answered here.
StoreSave(r) ==
  /\ At(r, {"putStore", "deleteStore"}, "save")
  /\ LET req == reqs[r]
         cur == FindById(stores, req.doc.id)
         doc == Merge(cur, req.doc, req.upd) IN
     IF ~IsEmail(req.upd.email)
     THEN /\ Respond(r, req, 400, "ValidationError")
          /\ UNCHANGED stores
     ELSE IF ~StoreEmailIndexAllows(doc)
     THEN /\ Respond(r, req, 500, "SERVER_ERROR")
          /\ UNCHANGED stores
     ELSE /\ stores' = Replace(stores, doc)
          /\ IF req.kind = "deleteStore"
             THEN Continue(r, [req EXCEPT !.pc = "unlinkOwner", !.wrote = (doc # cur)])
             ELSE Respond(r, [req EXCEPT !.wrote = (doc # cur)], 200, "")
  /\ UNCHANGED <<users, ratings, nextId>>

\* await User.findByIdAndUpdate(store.ownerId, { storeId: null }); the response.
DeleteStoreUnlinkOwner(r) ==
  /\ At(r, {"deleteStore"}, "unlinkOwner")
  /\ LET req == reqs[r]
         owner == FindById(users, req.doc.ownerId) IN
     /\ users' = IF owner = Null THEN users
                 ELSE Replace(users, [owner EXCEPT !.storeId = Null.id])
     /\ Respond(r, [req EXCEPT !.wrote = (req.wrote \/ users' # users)], 200, "")
  /\ UNCHANGED <<stores, ratings, nextId>>

\* -------------------------------------------------------------------- views
\* What a view has read so far: the Promise.all of a listing issues the find
\* and the count together, and the database serves them in either order.
NoListing == [list |-> {}, total |-> 0, found |-> FALSE, counted |-> FALSE,
              userRatings |-> {}]

UserFilterWithInactive(role) == {u \in users : role = "" \/ u.role = role}

\* const filter = { isActive: true }, plus the role of the query string.
UserFilter(role) == {u \in users : u.isActive /\ (role = "" \/ u.role = role)}

\* Store.find({ isActive: true })
StoreFilter == {s \in stores : s.isActive}

\* GET /api/users: authenticateToken, authorize('admin'), validateSearch.
StartGetUsers(r) ==
  /\ FreeSlot(r)
  /\ \E token \in Tokens :
       LET a == Gate(token, {"admin"})
           req == [NewReq("getUsers", token, Null.id) EXCEPT !.user = a.user] IN
       IF a.status # 0 THEN Reply(req, a.status, a.error)
       ELSE \E role \in {"", "user", "owner"} :
              LET rq == [req EXCEPT !.body = [role |-> role]] IN
              IF role \notin Roles \cup {""} THEN Reply(rq, 400, "VALIDATION_FAILED")
              ELSE Admit(r, [rq EXCEPT !.pc = "queries", !.doc = NoListing])

\* await Promise.all([User.find(filter), User.countDocuments(filter)])
GetUsersQueries(r) ==
  /\ At(r, {"getUsers"}, "queries")
  /\ LET req == reqs[r] IN
     \E q \in {"find", "count"} :
        /\ IF q = "find" THEN ~req.doc.found ELSE ~req.doc.counted
        /\ LET S == UserFilter(req.body.role)
               doc == IF q = "find"
                      THEN [req.doc EXCEPT !.list = S, !.found = TRUE]
                      ELSE [req.doc EXCEPT !.total = Cardinality(S), !.counted = TRUE]
               rq == [req EXCEPT !.doc = doc] IN
           IF doc.found /\ doc.counted THEN Respond(r, rq, 200, "")
           ELSE Continue(r, rq)
  /\ UNCHANGED <<users, stores, ratings, nextId>>

\* GET /api/users/dashboard/stats: authenticateToken, authorize('admin').
StartGetStats(r) ==
  /\ FreeSlot(r)
  /\ \E token \in Tokens :
       LET a == Gate(token, {"admin"})
           req == [NewReq("getStats", token, Null.id) EXCEPT !.user = a.user] IN
       IF a.status # 0 THEN Reply(req, a.status, a.error)
       ELSE Admit(r, [req EXCEPT !.pc = "counts",
                        !.doc = [totalUsers |-> 0, totalStores |-> 0,
                                 totalRatings |-> 0, counted |-> {}]])

\* await Promise.all([User.countDocuments({ isActive: true }),
\*                    Store.countDocuments({ isActive: true }),
\*                    Rating.countDocuments()])
GetStatsCounts(r) ==
  /\ At(r, {"getStats"}, "counts")
  /\ LET req == reqs[r] IN
     \E q \in {"users", "stores", "ratings"} \ req.doc.counted :
        LET doc == [req.doc EXCEPT
                      !.totalUsers = IF q = "users"
                                     THEN Cardinality(UserFilter("")) ELSE @,
                      !.totalStores = IF q = "stores"
                                      THEN Cardinality(StoreFilter) ELSE @,
                      !.totalRatings = IF q = "ratings"
                                       THEN Cardinality(ratings) ELSE @,
                      !.counted = @ \cup {q}]
            rq == [req EXCEPT !.doc = doc] IN
        IF doc.counted = {"users", "stores", "ratings"} THEN Respond(r, rq, 200, "")
        ELSE Continue(r, rq)
  /\ UNCHANGED <<users, stores, ratings, nextId>>

\* GET /api/users/:userId: authenticateToken, authorize('admin'),
\* validateObjectId.
StartGetUser(r) ==
  /\ FreeSlot(r)
  /\ \E token \in Tokens :
       LET a == Gate(token, {"admin"})
           req == [NewReq("getUser", token, Null.id) EXCEPT !.user = a.user] IN
       IF a.status # 0 THEN Reply(req, a.status, a.error)
       ELSE \E userId \in UserIdInputs :
              LET rq == [req EXCEPT !.target = userId] IN
              IF ~IsMongoId(userId) THEN Reply(rq, 400, "VALIDATION_FAILED")
              ELSE Admit(r, [rq EXCEPT !.pc = "findUser"])

\* const user = await User.findById(userId).populate('storeId')
GetUserFind(r) ==
  /\ At(r, {"getUser"}, "findUser")
  /\ LET req == reqs[r]
         user == FindById(users, req.target)
         rq == [req EXCEPT !.doc = [user |-> user, ratingsCount |-> 0,
                                    recentRatings |-> {}]] IN
     IF user = Null \/ ~user.isActive THEN Respond(r, rq, 404, "USER_NOT_FOUND")
     ELSE IF user.role = "storeOwner" /\ FindById(stores, user.storeId) # Null
     THEN Continue(r, [rq EXCEPT !.pc = "countRatings"])
     ELSE Respond(r, rq, 200, "")
  /\ UNCHANGED <<users, stores, ratings, nextId>>

\* const ratingsCount = await Rating.countDocuments({ storeId: user.storeId })
GetUserCountRatings(r) ==
  /\ At(r, {"getUser"}, "countRatings")
  /\ LET req == reqs[r] IN
     Continue(r, [req EXCEPT !.pc = "recentRatings",
                    !.doc.ratingsCount = Cardinality(RatingsOf(req.doc.user.storeId))])
  /\ UNCHANGED <<users, stores, ratings, nextId>>

\* const recentRatings = await Rating.find({ storeId: user.storeId })
GetUserRecentRatings(r) ==
  /\ At(r, {"getUser"}, "recentRatings")
  /\ LET req == reqs[r] IN
     Respond(r, [req EXCEPT !.doc.recentRatings = RatingsOf(req.doc.user.storeId)],
             200, "")
  /\ UNCHANGED <<users, stores, ratings, nextId>>

\* GET /api/stores: authenticateToken, validatePagination, validateSearch.
StartGetStores(r) ==
  /\ FreeSlot(r)
  /\ \E token \in Tokens :
       LET a == Gate(token, Roles)
           req == [NewReq("getStores", token, Null.id) EXCEPT !.user = a.user] IN
       IF a.status # 0 THEN Reply(req, a.status, a.error)
       ELSE Admit(r, [req EXCEPT !.pc = "queries", !.doc = NoListing])

\* await Promise.all([Store.find(filter), Store.countDocuments(filter)])
GetStoresQueries(r) ==
  /\ At(r, {"getStores"}, "queries")
  /\ LET req == reqs[r] IN
     \E q \in {"find", "count"} :
        /\ IF q = "find" THEN ~req.doc.found ELSE ~req.doc.counted
        /\ LET doc == IF q = "find"
                      THEN [req.doc EXCEPT !.list = StoreFilter, !.found = TRUE]
                      ELSE [req.doc EXCEPT !.total = Cardinality(StoreFilter),
                                           !.counted = TRUE]
               rq == [req EXCEPT !.doc = doc] IN
           IF ~(doc.found /\ doc.counted) THEN Continue(r, rq)
           ELSE IF req.user.role = "user"
           THEN Continue(r, [rq EXCEPT !.pc = "userRatings"])
           ELSE Respond(r, rq, 200, "")
  /\ UNCHANGED <<users, stores, ratings, nextId>>

\* const userRatings = await Rating.find({ userId, storeId: { $in: ... } })
GetStoresUserRatings(r) ==
  /\ At(r, {"getStores"}, "userRatings")
  /\ LET req == reqs[r]
         listed == {s.id : s \in req.doc.list} IN
     Respond(r, [req EXCEPT !.doc.userRatings =
                   {d \in ratings : d.userId = req.user.id /\ d.storeId \in listed}],
             200, "")
  /\ UNCHANGED <<users, stores, ratings, nextId>>

\* What a view of one store has read: the store, and the ratings list when
\* the response carries one.
StoreView(store) == [store |-> store, hasRatings |-> FALSE, ratings |-> {}]

\* store.ownerId.toString() === req.user._id.toString()
OwnsAnyStore(user, store) == TRUE

OwnsStore(user, store) == store.ownerId = user.id

\* GET /api/stores/:storeId: authenticateToken, validateObjectId.
StartGetStore(r) ==
  /\ FreeSlot(r)
  /\ \E token \in Tokens :
       LET a == Gate(token, Roles)
           req == [NewReq("getStore", token, Null.id) EXCEPT !.user = a.user] IN
       IF a.status # 0 THEN Reply(req, a.status, a.error)
       ELSE \E storeId \in StoreIdTargets :
              LET rq == [req EXCEPT !.target = storeId, !.doc = StoreView(Null)] IN
              IF ~IsMongoId(storeId) THEN Reply(rq, 400, "VALIDATION_FAILED")
              ELSE Admit(r, [rq EXCEPT !.pc = "findStore"])

\* const store = await Store.findById(storeId), then the queries the role
\* of the requester asks for.
GetStoreFind(r) ==
  /\ At(r, {"getStore"}, "findStore")
  /\ LET req == reqs[r]
         store == FindById(stores, req.target)
         rq == [req EXCEPT !.doc = StoreView(store)] IN
     IF store = Null \/ ~store.isActive THEN Respond(r, rq, 404, "STORE_NOT_FOUND")
     ELSE IF req.user.role = "user" THEN Continue(r, [rq EXCEPT !.pc = "userRating"])
     ELSE IF (req.user.role = "storeOwner" /\ OwnsStore(req.user, store))
               \/ req.user.role = "admin"
     THEN Continue(r, [rq EXCEPT !.pc = "ratings"])
     ELSE Respond(r, rq, 200, "")
  /\ UNCHANGED <<users, stores, ratings, nextId>>

\* const userRating = await Rating.findOne({ userId, storeId }); a 'user' is
\* neither the owner nor an admin, so the response follows.
GetStoreUserRating(r) ==
  /\ At(r, {"getStore"}, "userRating")
  /\ Respond(r, reqs[r], 200, "")
  /\ UNCHANGED <<users, stores, ratings, nextId>>

\* GET /api/ratings/store/:storeId: authenticateToken,
\* authorize('admin', 'storeOwner'), validateObjectId.
StartGetStoreRatings(r) ==
  /\ FreeSlot(r)
  /\ \E token \in Tokens :
       LET a == Gate(token, {"admin", "storeOwner"})
           req == [NewReq("getStoreRatings", token, Null.id) EXCEPT !.user = a.user] IN
       IF a.status # 0 THEN Reply(req, a.status, a.error)
       ELSE \E storeId \in StoreIdTargets :
              LET rq == [req EXCEPT !.target = storeId, !.doc = StoreView(Null)] IN
              IF ~IsMongoId(storeId) THEN Reply(rq, 400, "VALIDATION_FAILED")
              ELSE IF a.user.role = "storeOwner"
              THEN Admit(r, [rq EXCEPT !.pc = "findStore"])
              ELSE Admit(r, [rq EXCEPT !.pc = "ratings"])

\* For store owners: const store = await Store.findById(storeId)
GetStoreRatingsFindStore(r) ==
  /\ At(r, {"getStoreRatings"}, "findStore")
  /\ LET req == reqs[r]
         store == FindById(stores, req.target)
         rq == [req EXCEPT !.doc = StoreView(store)] IN
     IF store = Null \/ ~OwnsStore(req.user, store)
     THEN Respond(r, rq, 403, "ACCESS_DENIED")
     ELSE Continue(r, [rq EXCEPT !.pc = "ratings"])
  /\ UNCHANGED <<users, stores, ratings, nextId>>

\* GET /api/stores/:storeId/dashboard: authenticateToken,
\* authorize('storeOwner', 'admin'), verifyStoreOwner.  An admin is passed on
\* without req.store, and the handler's store._id throws: 500.  A malformed id
\* makes findById throw: 500.
StartGetDashboard(r) ==
  /\ FreeSlot(r)
  /\ \E token \in Tokens :
       LET a == Gate(token, {"storeOwner", "admin"})
           req == [NewReq("getDashboard", token, Null.id) EXCEPT !.user = a.user] IN
       IF a.status # 0 THEN Reply(req, a.status, a.error)
       ELSE \E storeId \in StoreIdTargets :
              LET rq == [req EXCEPT !.target = storeId, !.doc = StoreView(Null)] IN
              IF a.user.role = "admin" THEN Reply(rq, 500, "SERVER_ERROR")
              ELSE IF ~IsMongoId(storeId) THEN Reply(rq, 500, "SERVER_ERROR")
              ELSE Admit(r, [rq EXCEPT !.pc = "verifyStoreOwner"])

\* verifyStoreOwner: const store = await Store.findById(storeId)
VerifyStoreOwner(r) ==
  /\ At(r, {"getDashboard"}, "verifyStoreOwner")
  /\ LET req == reqs[r]
         store == FindById(stores, req.target)
         rq == [req EXCEPT !.doc = StoreView(store)] IN
     IF store = Null THEN Respond(r, rq, 404, "STORE_NOT_FOUND")
     ELSE IF ~OwnsStore(req.user, store) THEN Respond(r, rq, 403, "NOT_YOUR_STORE")
     ELSE Continue(r, [rq EXCEPT !.pc = "ratings"])
  /\ UNCHANGED <<users, stores, ratings, nextId>>

\* const ratings = await Rating.find({ storeId }), and the response with them.
GetRatingsOfStore(r) ==
  /\ At(r, {"getStore", "getStoreRatings", "getDashboard"}, "ratings")
  /\ LET req == reqs[r] IN
     Respond(r, [req EXCEPT !.doc.hasRatings = TRUE,
                            !.doc.ratings = RatingsOf(req.target)], 200, "")
  /\ UNCHANGED <<users, stores, ratings, nextId>>

\* ------------------------------------------------------------------- seed
InitUnder(inFlight, requests) ==
  /\ users = SeedUsers
  /\ ratings = SeedRatings
  /\ stores = {[id |-> Store1Id, email |-> "contact@techelectronics.com",
                ownerId |-> OwnerId, averageRating |-> 45, totalRatings |-> 2,
                isActive |-> TRUE]}
  /\ reqs = [s \in 1..inFlight |-> Idle]
  /\ resp = NoResp
  /\ pending = requests
  /\ nextId = 23

Init == InitUnder(MaxInFlight, MaxRequests)

\* The seed under the load that races the recomputations.
InitRace == InitUnder(MaxRaceInFlight, MaxRaceRequests)

\* POST /api/ratings and PUT /api/ratings/:ratingId.
NextRatingWrites ==
  \E r \in AllSlots :
    \/ StartPostRating(r)
    \/ PostFindStore(r)
    \/ PostFindRating(r)
    \/ RatingInsert(r)
    \/ RatingSave(r)
    \/ HookFindStore(r)
    \/ HookAggregate(r)
    \/ HookStoreSave(r)
    \/ StartPutRating(r)
    \/ PutFindRating(r)

\* The routes of /api/ratings that write.
NextRatings ==
  \/ NextRatingWrites
  \/ \E r \in AllSlots :
    \/ StartDeleteRating(r)
    \/ DeleteFindRating(r)
    \/ DeleteRating(r)

\* The routes of /api/auth and /api/users.
NextAccounts ==
  \E r \in AllSlots :
    \/ StartRegister(r)
    \/ UserInsert(r)
    \/ Login(r)
    \/ Verify(r)
    \/ StartPatchPassword(r)
    \/ PatchPasswordFind(r)
    \/ StartCreateUser(r)
    \/ CreateUserFindEmail(r)
    \/ StartUserById(r)
    \/ UserByIdFind(r)
    \/ PutUserFindEmail(r)
    \/ UserSave(r)

\* The routes of /api/stores that write.
NextStores ==
  \E r \in AllSlots :
    \/ StartCreateStore(r)
    \/ CreateStoreFindEmail(r)
    \/ CreateStoreFindOwner(r)
    \/ CreateStoreFindOwnerStore(r)
    \/ CreateStoreSave(r)
    \/ CreateStoreSaveOwner(r)
    \/ StartStoreById(r)
    \/ StoreByIdFind(r)
    \/ PutStoreFindEmail(r)
    \/ StoreSave(r)
    \/ DeleteStoreUnlinkOwner(r)

\* The routes that read: listings, records by id, statistics, store ratings.
NextViews ==
  \E r \in AllSlots :
    \/ StartGetUsers(r)
    \/ GetUsersQueries(r)
    \/ StartGetStats(r)
    \/ GetStatsCounts(r)
    \/ StartGetUser(r)
    \/ GetUserFind(r)
    \/ GetUserCountRatings(r)
    \/ GetUserRecentRatings(r)
    \/ StartGetStores(r)
    \/ GetStoresQueries(r)
    \/ GetStoresUserRatings(r)
    \/ StartGetStore(r)
    \/ GetStoreFind(r)
    \/ GetStoreUserRating(r)
    \/ StartGetStoreRatings(r)
    \/ GetStoreRatingsFindStore(r)
    \/ StartGetDashboard(r)
    \/ VerifyStoreOwner(r)
    \/ GetRatingsOfStore(r)

SpecRatings == Init /\ [][NextRatings]_vars

SpecAccounts == Init /\ [][NextAccounts \/ NextStores]_vars

SpecRatingWrites == Init /\ [][NextRatingWrites]_vars

\* The ratings and stores routers.
SpecCatalog == Init /\ [][NextRatings \/ NextStores]_vars

\* The two authors of the seed's ratings edit and delete their own ratings.
RaceCallers == {d.userId : d \in SeedRatings}
RaceRatingIds == {d.id : d \in SeedRatings}

StartPutRatingRace(r) ==
  PutRatingFrom(r, RaceCallers, RaceRatingIds, {Undefined, Num(50)}, {"c"})

StartDeleteRatingRace(r) == DeleteRatingFrom(r, RaceCallers, RaceRatingIds)

NextCounterRace ==
  \E r \in AllSlots :
    \/ StartPutRatingRace(r)
    \/ PutFindRating(r)
    \/ RatingSave(r)
    \/ HookFindStore(r)
    \/ HookAggregate(r)
    \/ HookStoreSave(r)
    \/ StartDeleteRatingRace(r)
    \/ DeleteFindRating(r)
    \/ DeleteRating(r)

SpecCounterRace == InitRace /\ [][NextCounterRace]_vars

\* Every route of the backend.
SpecApp == Init /\ [][NextRatings \/ NextAccounts \/ NextStores \/ NextViews]_vars

SpecViews == Init /\ [][NextAccounts \/ NextStores \/ NextViews]_vars

\* ------------------------------------------------------------------ claims
RatingWrite == {"postRating", "putRating"}

\* The counters of a store are the aggregate of the ratings it has now:
\* totalRatings is their number, averageRating (tenths) is the tenth nearest
\* to their mean, and both are 0 when there is none.
CountersMatch(store) ==
  LET S == {d \in ratings : d.storeId = store.id}
      n == Cardinality(S)
      diff == store.averageRating * n - SumRatings(S) IN
  /\ store.totalRatings = n
  /\ IF n = 0 THEN store.averageRating = 0
     ELSE 2 * diff <= n /\ -2 * diff <= n

\* C1: at most one Rating record exists for any (userId, storeId) pair, also
\* after two concurrent POSTs of one user for one store.
C1_OneRatingPerUserPerStore ==
  \A a, b \in ratings :
    (a.userId = b.userId /\ a.storeId = b.storeId) => a = b

\* Two POSTs of one user for one store both found no rating; the second insert
\* was refused by the index.
C1_Witness ==
  /\ resp.status = 500
  /\ resp.kind = "postRating"
  /\ resp.created
  /\ \E d \in ratings : d.userId = resp.user.id /\ d.storeId = resp.target

\* C2: when a POST or PUT of a rating that ran with no other request in flight
\* is answered 200/201, the counters of the rated store match its ratings.
C2_CountersMatchAfterWrite ==
  (/\ resp.status \in {200, 201}
   /\ resp.kind \in RatingWrite
   /\ resp.alone)
  => CountersMatch(FindById(stores, resp.doc.storeId))

\* A third rating of 5 joined the ratings 5 and 4: the mean 4.67 is stored as 4.7.
C2_Witness ==
  /\ resp.status = 201
  /\ resp.kind = "postRating"
  /\ resp.alone
  /\ FindById(stores, resp.doc.storeId).totalRatings = 3
  /\ FindById(stores, resp.doc.storeId).averageRating = 47

\* C3: when DELETE /api/ratings/:ratingId is answered 200, the counters of the
\* rating's store are those of the remaining ratings.
C3_CountersMatchAfterDelete ==
  (/\ resp.status = 200
   /\ resp.kind = "deleteRating"
   /\ resp.alone)
  => CountersMatch(FindById(stores, resp.doc.storeId))

\* C4: once every rating write (POST, PUT) has completed, every store's
\* counters match its ratings, whatever the interleaving was.
C4_CountersMatchWhenQuiescent ==
  InFlight = {} => \A s \in stores : CountersMatch(s)

\* The author of a rating: a 'user' whose id is the rating's userId.
IsAuthor(user, rating) == user.role = "user" /\ rating.userId = user.id

\* A request that has written was allowed to write what it wrote.
WriterAllowed(x) ==
  x.wrote =>
    IF x.kind = "deleteRating" THEN IsAuthor(x.user, x.doc) \/ x.user.role = "admin"
    ELSE IsAuthor(x.user, x.doc)

\* An authenticated request on a rating that its requester may not write in
\* this way: a POST or PUT of a non-'user', a PUT on another user's rating, a
\* DELETE by neither the author nor an admin.
ForeignAttempt(x) ==
  /\ x.status # 0
  /\ x.user # Null
  /\ \/ x.kind \in RatingWrite /\ x.user.role # "user"
     \/ /\ x.kind = "putRating"
        /\ FindById(ratings, x.target) # Null
        /\ FindById(ratings, x.target).userId # x.user.id
     \/ /\ x.kind = "deleteRating"
        /\ FindById(ratings, x.target) # Null
        /\ ~IsAuthor(x.user, FindById(ratings, x.target))
        /\ x.user.role # "admin"

\* C6 as stated: ratings are written by their author only (deleted by the
\* author or an admin), and every other attempt is answered 403 and writes
\* nothing.
C6_OnlyAuthorWritesOr403 ==
  /\ \A r \in InFlight : WriterAllowed(reqs[r])
  /\ resp.status # 0 /\ resp.kind \in RatingWrite \cup {"deleteRating"}
       => WriterAllowed(resp)
  /\ ForeignAttempt(resp) => resp.status = 403 /\ ~resp.wrote

\* C6 amended: the same, but a PUT on another user's rating whose body fails
\* the handler's rating check is answered 400 INVALID_RATING (the check runs
\* before the rating is looked up).
C6_OnlyAuthorWrites ==
  /\ \A r \in InFlight : WriterAllowed(reqs[r])
  /\ resp.status # 0 /\ resp.kind \in RatingWrite \cup {"deleteRating"}
       => WriterAllowed(resp)
  /\ ForeignAttempt(resp) =>
       /\ ~resp.wrote
       /\ \/ resp.status = 403
          \/ /\ resp.kind = "putRating"
             /\ resp.status = 400
             /\ resp.error = "INVALID_RATING"

\* Another user's PUT was answered 403 ACCESS_DENIED.
C6_Witness ==
  /\ ForeignAttempt(resp)
  /\ resp.kind = "putRating"
  /\ resp.error = "ACCESS_DENIED"
  /\ resp.user.role = "user"

\* C9: every stored rating value is an integer from 1 to 5 (10..50 in tenths).
C9_RatingInRange ==
  \A d \in ratings : d.rating \in {10, 20, 30, 40, 50}

\* A PUT whose rating is missing or 0 was answered 200 and kept the value.
C9_Witness ==
  /\ resp.status = 200
  /\ resp.kind = "putRating"
  /\ ~Truthy(resp.body.rating)
  /\ resp.wrote
  /\ FindById(ratings, resp.target).rating \in {40, 50}

\* The routes of /api/users and /api/stores that create, update or soft-delete.
AdminKinds ==
  {"createUser", "putUser", "deleteUser", "createStore", "putStore", "deleteStore"}

\* C5: a request on /api/users or /api/stores that has written or succeeded
\* was authenticated as an active admin; from a 'user' or 'storeOwner' it is
\* answered 403, without a valid token 401, and then it has written nothing.
C5_OnlyAdminsManage ==
  /\ \A r \in InFlight :
       reqs[r].kind \in AdminKinds =>
         reqs[r].user.role = "admin" /\ reqs[r].user.isActive
  /\ (resp.status # 0 /\ resp.kind \in AdminKinds) =>
       /\ (resp.wrote \/ resp.status \in {200, 201}) =>
            resp.user # Null /\ resp.user.role = "admin" /\ resp.user.isActive
       /\ (resp.user # Null /\ resp.user.role \in {"user", "storeOwner"}) =>
            resp.status = 403 /\ ~resp.wrote
       /\ resp.token \in {NoToken, ForgedToken} =>
            resp.status = 401 /\ ~resp.wrote

\* An admin created a store; a store owner asking for the same got 403.
C5_Witness ==
  /\ resp.status = 403
  /\ resp.kind = "createStore"
  /\ resp.user.role = "storeOwner"
  /\ \E s \in stores : s.id # Store1Id

\* Endpoints behind authenticateToken.
AuthKinds ==
  AdminKinds \cup {"verify", "patchPassword", "postRating", "putRating", "deleteRating"}

\* C7: while a user is inactive, a login with that user's email is answered
\* 401, and a request arriving with that user's token is answered 401 by
\* authenticateToken: no handler runs for a user read as inactive.
C7_InactiveUserLockedOut ==
  /\ \A r \in InFlight :
       reqs[r].kind \in AuthKinds => reqs[r].user.isActive
  /\ (resp.status # 0 /\ resp.pc = "start" /\ resp.kind \in AuthKinds) =>
       LET u == FindById(users, resp.token) IN
       (u # Null /\ ~u.isActive) =>
          resp.status = 401 /\ resp.user = Null /\ ~resp.wrote
  /\ (resp.status # 0 /\ resp.kind = "login") =>
       LET u == FindByEmail(users, resp.body.email) IN
       (u # Null /\ ~u.isActive) => resp.status = 401

\* Alice was soft-deleted; her login with the right password is answered 401.
C7_Witness ==
  /\ resp.status = 401
  /\ resp.kind = "login"
  /\ resp.doc # Null
  /\ ~resp.doc.isActive
  /\ ComparePassword(resp.body.password, resp.doc.password)

\* Accounts with more than a normal user's rights.
Privileged == {<<u.id, u.role>> : u \in {d \in users : d.role # "user"}}

\* C8: a registration stores role 'user' whatever the body's role, and a step
\* that creates or yields an admin or storeOwner account is a step of a
\* request authenticated as admin.
C8_RegistrationCreatesUsersOnly ==
  [][/\ (resp'.status = 201 /\ resp'.kind = "register") =>
          /\ resp'.doc.role = "user"
          /\ resp'.doc \in users'
     /\ (Privileged' \ Privileged # {}) =>
          \E r \in InFlight :
             /\ reqs'[r] # reqs[r]
             /\ reqs[r].kind \in {"createUser", "putUser"}
             /\ reqs[r].user.role = "admin"]_vars

\* A registration whose body asked for role admin was stored as a 'user'.
C8_Witness ==
  /\ resp.status = 201
  /\ resp.kind = "register"
  /\ resp.body.role = "admin"
  /\ FindById(users, resp.doc.id).role = "user"

\* C10: no two users and no two stores share an email (soft-deleted ones
\* included), and a creation refused as a duplicate has created nothing.
C10_EmailsUnique ==
  /\ \A a, b \in users : Lower(a.email) = Lower(b.email) => a = b
  /\ \A a, b \in stores : Lower(a.email) = Lower(b.email) => a = b
  /\ resp.status # 0 /\ resp.error \in {"DUPLICATE_EMAIL", "USER_EXISTS", "STORE_EXISTS"}
       => ~resp.wrote /\ resp.status = 400

\* Two registrations with one email ran concurrently; the index refused the
\* second insert.
C10_Witness ==
  /\ resp.status = 400
  /\ resp.kind = "register"
  /\ resp.error = "DUPLICATE_EMAIL"
  /\ \E u \in users : u.email = resp.body.email

Ids(coll) == {d.id : d \in coll}

\* The request in slot r takes a step.
StepOf(r, kinds) ==
  /\ r \in InFlight
  /\ reqs[r].kind \in kinds
  /\ reqs'[r] # reqs[r]

\* What the views answer about records that are inactive: listings hold active
\* records only, a GET by id of an inactive record is answered 404, and the
\* statistics count active records only.
ViewsHideInactive(x) ==
  /\ (x.status = 200 /\ x.kind \in {"getUsers", "getStores"}) =>
       /\ \A d \in x.doc.list : d.isActive
       /\ x.alone /\ x.kind = "getUsers" =>
            /\ x.doc.list = {u \in users : u.isActive /\ x.body.role \in {"", u.role}}
            /\ x.doc.total = Cardinality(x.doc.list)
       /\ x.alone /\ x.kind = "getStores" =>
            /\ x.doc.list = {d \in stores : d.isActive}
            /\ x.doc.total = Cardinality(x.doc.list)
  /\ (x.status = 200 /\ x.kind = "getUser") => x.doc.user.isActive
  /\ (x.status = 200 /\ x.kind = "getStore") => x.doc.store.isActive
  /\ (x.status # 0 /\ x.kind = "getUser" /\ x.pc # "start" /\ x.alone) =>
       (FindById(users, x.target) # Null /\ ~FindById(users, x.target).isActive
          => x.status = 404)
  /\ (x.status # 0 /\ x.kind = "getStore" /\ x.pc # "start" /\ x.alone) =>
       (FindById(stores, x.target) # Null /\ ~FindById(stores, x.target).isActive
          => x.status = 404)
  /\ (x.status = 200 /\ x.kind = "getStats" /\ x.alone) =>
       /\ x.doc.totalUsers = Cardinality({u \in users : u.isActive})
       /\ x.doc.totalStores = Cardinality({d \in stores : d.isActive})

\* A step of a DELETE removes no record: it sets isActive of its target to
\* false (for a store it also clears the owner's storeId), and a DELETE that
\* ran alone and was answered 200 leaves its target inactive.
DeleteIsSoft ==
  /\ Ids(users) \subseteq Ids(users')
  /\ Ids(stores) \subseteq Ids(stores')
  /\ \A r \in Slots :
       /\ StepOf(r, {"deleteUser"}) =>
            /\ stores' = stores /\ ratings' = ratings
            /\ \A u \in users :
                 FindById(users', u.id) \in {u, [u EXCEPT !.isActive = FALSE]}
       /\ StepOf(r, {"deleteStore"}) =>
            /\ ratings' = ratings
            /\ \A d \in stores :
                 FindById(stores', d.id) \in {d, [d EXCEPT !.isActive = FALSE]}
            /\ \A u \in users :
                 FindById(users', u.id) \in {u, [u EXCEPT !.storeId = Null.id]}
  /\ (resp'.status = 200 /\ resp'.kind = "deleteUser" /\ resp'.alone) =>
       ~FindById(users', resp'.target).isActive
  /\ (resp'.status = 200 /\ resp'.kind = "deleteStore" /\ resp'.alone) =>
       ~FindById(stores', resp'.target).isActive

\* C11 as stated: DELETE of a user or a store is a soft delete, and from
\* then on the record stays out of the listings, of GET by id and of the
\* statistics: an inactive record never becomes active again.
C11_SoftDeleteIsFinal ==
  [][/\ DeleteIsSoft
     /\ ViewsHideInactive(resp')
     /\ \A u \in users : ~u.isActive => ~FindById(users', u.id).isActive
     /\ \A d \in stores : ~d.isActive => ~FindById(stores', d.id).isActive]_vars

\* C11 amended: the same, for as long as the record is inactive; a user
\* becomes active again only by an admin's PUT /api/users/:userId whose body
\* sets isActive to true, and a store never does.
C11_SoftDelete ==
  [][/\ DeleteIsSoft
     /\ ViewsHideInactive(resp')
     /\ \A u \in users :
          (~u.isActive /\ FindById(users', u.id).isActive) =>
             \E r \in Slots : /\ StepOf(r, {"putUser"})
                              /\ reqs[r].target = u.id
                              /\ reqs[r].body.isActive = "true"
                              /\ reqs[r].user.role = "admin"
     /\ \A d \in stores : ~d.isActive => ~FindById(stores', d.id).isActive]_vars

\* A user was soft-deleted; the GET by id that followed read the record, found
\* it inactive and answered 404.
C11_Witness ==
  /\ resp.status = 404
  /\ resp.kind = "getUser"
  /\ resp.doc.user # Null
  /\ ~resp.doc.user.isActive
  /\ resp.doc.user \in users

\* The views that carry the ratings of one store.
StoreRatingViews == {"getStore", "getStoreRatings", "getDashboard"}

\* C12: a response to a store owner carries the ratings of a store only when
\* the store's ownerId is the requester's id; asking for another owner's
\* store, GET /api/ratings/store/:storeId and the dashboard answer 403 or 404,
\* and GET /api/stores/:storeId answers 404 or 200 without the ratings list.
C12_OwnerSeesOwnStoreOnly ==
  /\ \A r \in InFlight :
       (/\ reqs[r].kind \in StoreRatingViews
        /\ reqs[r].pc = "ratings"
        /\ reqs[r].user.role = "storeOwner")
       => reqs[r].doc.store.ownerId = reqs[r].user.id
  /\ (/\ resp.status # 0
      /\ resp.kind \in StoreRatingViews
      /\ resp.user # Null
      /\ resp.user.role = "storeOwner") =>
       /\ resp.doc.hasRatings =>
            /\ resp.status = 200
            /\ resp.doc.store.id = resp.target
            /\ resp.doc.store.ownerId = resp.user.id
       /\ \A d \in resp.doc.ratings : d.storeId = resp.target
       /\ ~resp.doc.hasRatings => resp.doc.ratings = {}
       /\ (resp.status = 200 /\ resp.kind # "getStore") => resp.doc.hasRatings
       /\ LET store == FindById(stores, resp.target) IN
          (store # Null /\ store.ownerId # resp.user.id) =>
             /\ ~resp.doc.hasRatings
             /\ IF resp.kind = "getStore" THEN resp.status \in {200, 404}
                ELSE resp.status \in {403, 404}

\* The second store owner asked for the ratings of the first owner's store
\* and was answered 403.
C12_Witness ==
  /\ resp.status = 403
  /\ resp.kind = "getStoreRatings"
  /\ resp.user.role = "storeOwner"
  /\ resp.doc.store # Null
  /\ resp.doc.store.ownerId # resp.user.id
  /\ RatingsOf(resp.target) # {}

\* The stored password is the bcrypt hash of this text: a login with it passes.
LogsIn(text, stored) == stored = [rounds |-> 1, text |-> text]

\* C13: PATCH /api/auth/password saves only when currentPassword matches the
\* stored password; a wrong one is answered 400 INVALID_CURRENT_PASSWORD and
\* writes nothing; after a change answered 200 (no other request in between)
\* the new password logs in and the old one does not; and a login of an active
\* user is answered 200 exactly when its password matches the stored one.
C13_PasswordChange ==
  /\ \A r \in InFlight :
       (reqs[r].kind = "patchPassword" /\ reqs[r].pc = "save") =>
          LogsIn(reqs[r].body.currentPassword, reqs[r].doc.password)
  /\ (resp.status # 0 /\ resp.kind = "patchPassword" /\ resp.pc # "start") =>
       /\ resp.status = 200 =>
            LogsIn(resp.body.currentPassword, resp.doc.password)
       /\ ~LogsIn(resp.body.currentPassword, resp.doc.password) =>
            /\ resp.status = 400
            /\ resp.error = "INVALID_CURRENT_PASSWORD"
            /\ ~resp.wrote
            /\ resp.alone => FindById(users, resp.target).password = resp.doc.password
       /\ (resp.status = 200 /\ resp.alone) =>
            LET stored == FindById(users, resp.target).password IN
            /\ LogsIn(resp.body.newPassword, stored)
            /\ resp.body.newPassword # resp.body.currentPassword =>
                 ~LogsIn(resp.body.currentPassword, stored)
  /\ (resp.status # 0 /\ resp.kind = "login" /\ resp.doc # Null /\ resp.doc.isActive) =>
       /\ resp.doc \in users
       /\ resp.status = 200 <=> LogsIn(resp.body.password, resp.doc.password)

\* Alice changed her password; her login with the old one is answered 401.
C13_Witness ==
  /\ resp.status = 401
  /\ resp.kind = "login"
  /\ resp.doc # Null
  /\ resp.doc.id = AliceId
  /\ resp.doc.isActive
  /\ resp.body.password = "User123!"
  /\ LogsIn("Fresh123!", resp.doc.password)

\* Requests that save a loaded User without assigning its password.
SavesUserOnly == {"putUser", "deleteUser", "createStore"}

\* C14: every stored password is the hash (applied once) of the password last
\* set; a step changes a user's stored password only as the save of that
\* user's own PATCH /api/auth/password, to the hash of its newPassword; and
\* the saves of a User that set no password are not refused on account of the
\* stored hash: a soft delete and the linking of an owner always succeed, an
\* admin PUT fails validation only for the email it carries.
C14_HashOnlyWhenPasswordSet ==
  [][/\ \A u \in users' : u.password.rounds = 1
     /\ \A u \in users :
          FindById(users', u.id).password # u.password =>
             \E r \in Slots :
                /\ StepOf(r, {"patchPassword"})
                /\ reqs[r].user.id = u.id
                /\ LogsIn(reqs[r].body.newPassword, FindById(users', u.id).password)
     /\ (resp'.status # 0 /\ resp'.kind \in SavesUserOnly) =>
          /\ resp'.error = "ValidationError" =>
               resp'.kind = "putUser" /\ ~IsEmail(resp'.body.email)
          /\ (resp'.kind = "deleteUser" /\ resp'.pc = "save") => resp'.status = 200
          /\ (resp'.kind = "createStore" /\ resp'.pc = "saveOwner") =>
               resp'.status = 201]_vars

\* An admin's store creation linked the second store owner to the new store;
\* her seed password still logs in.
C14_Witness ==
  /\ resp.status = 201
  /\ resp.kind = "createStore"
  /\ FindById(users, JaneId).storeId = resp.target
  /\ FindById(stores, resp.target).ownerId = JaneId
  /\ LogsIn("Owner123!", FindById(users, JaneId).password)

\* C15: a POST /api/ratings naming a store that does not exist or is
\* soft-deleted is answered 404 STORE_NOT_FOUND, and a request so answered has
\* created or changed no rating and no store counter.
C15_MissingStoreIs404 ==
  /\ (resp.status # 0 /\ resp.kind = "postRating" /\ resp.error = "STORE_NOT_FOUND") =>
       /\ resp.status = 404
       /\ ~resp.wrote
       /\ ~resp.created
  /\ (resp.status # 0 /\ resp.kind = "postRating" /\ resp.pc # "start" /\ resp.alone) =>
       LET store == FindById(stores, resp.body.storeId) IN
       (store = Null \/ ~store.isActive) =>
          /\ resp.status = 404
          /\ resp.error = "STORE_NOT_FOUND"
          /\ ~resp.wrote
  /\ \A r \in InFlight :
       (reqs[r].kind = "postRating" /\ reqs[r].pc = "findStore") => ~reqs[r].wrote

\* The store was soft-deleted; a user's valid rating for it is answered 404.
C15_Witness ==
  /\ resp.status = 404
  /\ resp.kind = "postRating"
  /\ FindById(stores, resp.body.storeId) # Null
  /\ ~FindById(stores, resp.body.storeId).isActive
  /\ resp.user.role = "user"

\* C16: a request answered with a 4xx status has changed nothing in the User,
\* Store and Rating collections (every step that changes a collection is
\* recorded on the request that takes it); a rejected POST /api/stores has
\* created no store and linked no owner.
C16_ClientErrorsChangeNothing ==
  [][/\ <<users', stores', ratings'>> # <<users, stores, ratings>> =>
          \E r \in Slots :
             /\ StepOf(r, {reqs[r].kind})
             /\ IF reqs'[r] = Idle THEN resp'.wrote ELSE reqs'[r].wrote
     /\ (resp'.status >= 400 /\ resp'.status <= 499) =>
          /\ ~resp'.wrote
          /\ <<users', stores', ratings'>> = <<users, stores, ratings>>
          /\ resp'.kind = "createStore" =>
               /\ resp'.pc \notin {"saveOwner"}
               /\ resp'.target = Null.id]_vars

\* A store creation whose email was taken between its check and its save was
\* refused by the unique index with 400 DUPLICATE_EMAIL.
C16_Witness ==
  /\ resp.status = 400
  /\ resp.kind = "createStore"
  /\ resp.error = "DUPLICATE_EMAIL"
  /\ resp.created
  /\ ~resp.wrote
  /\ \E d \in stores : d.email = resp.body.email

\* C17: every store has 0 <= averageRating <= 5 (50 tenths), totalRatings >= 0,
\* and averageRating is 0 exactly when totalRatings is 0 (otherwise it is at
\* least 1).
C17_CountersInRange ==
  \A s \in stores :
    /\ s.averageRating >= 0
    /\ s.averageRating <= 50
    /\ s.totalRatings >= 0
    /\ s.averageRating = 0 <=> s.totalRatings = 0
    /\ s.totalRatings > 0 => s.averageRating >= 10

\* C18: no two Store records have the same ownerId, also when two creations
\* naming one owner run concurrently; a creation answered OWNER_HAS_STORE has
\* created no record.
C18_OneStorePerOwner ==
  /\ \A a, b \in stores : a.ownerId = b.ownerId => a = b
  /\ (resp.status # 0 /\ resp.error = "OWNER_HAS_STORE") =>
       resp.status = 400 /\ ~resp.wrote

\* The request in slot r is a POST /api/ratings about to take its step at pc,
\* with no other request admitted since it started.
PostAloneAt(r, pc) ==
  /\ r \in InFlight
  /\ reqs[r].kind = "postRating"
  /\ reqs[r].pc = pc
  /\ reqs[r].alone
  /\ reqs'[r] # reqs[r]

\* C19: a POST /api/ratings of a user who has a rating for the store is
\* answered 200 and overwrites the value and the comment of that record
\* without changing the set of records (201 is the answer of a creation only);
\* and a POST that repeats what is stored changes nothing: its save leaves the
\* ratings as they are, and the recomputation leaves counters that matched.
C19_PostIsUpsert ==
  [][/\ (resp'.status \in {200, 201} /\ resp'.kind = "postRating") =>
          /\ resp'.status = 200 <=> ~resp'.created
          /\ resp'.alone =>
               LET S == {d \in ratings' : /\ d.userId = resp'.user.id
                                          /\ d.storeId = resp'.body.storeId} IN
               /\ Cardinality(S) = 1
               /\ \A d \in S : /\ d.rating = CastNumber(resp'.body.rating).val
                               /\ d.comment = resp'.body.comment
                               /\ d.id = resp'.doc.id
     /\ \A r \in Slots :
          /\ (PostAloneAt(r, "save") \/ PostAloneAt(r, "storeSave")) =>
               Ids(ratings') = Ids(ratings)
          /\ (PostAloneAt(r, "save") /\ reqs[r].upd = reqs[r].doc) =>
               ratings' = ratings
          /\ (/\ PostAloneAt(r, "storeSave")
              /\ CountersMatch(FindById(stores, reqs[r].doc.storeId))) =>
               stores' = stores]_vars

\* Carol, who had no rating, sent the same POST twice: the second was answered
\* 200 and changed nothing.
C19_Witness ==
  /\ resp.status = 200
  /\ resp.kind = "postRating"
  /\ resp.user.id = CarolId
  /\ resp.alone
  /\ ~resp.wrote
  /\ resp.doc \in ratings
  /\ CountersMatch(FindById(stores, resp.doc.storeId))

====
